---- MODULE Spec2Model ----
(***************************************************************************)
(* A model of the two BSI threat-intelligence scrapers, scrape_apt.py and  *)
(* scrape_crime.py: the field segmentation functions, the record assembly  *)
(* of parse_table, and main's fetch/retry loop with the final write.       *)
(*                                                                         *)
(* TEXT.  A Python str is modelled as a sequence of lexemes.  A lexeme is  *)
(* a literal piece of text (a word, a punctuation character, one white-    *)
(* space character), and the text is the concatenation of its lexemes.     *)
(* The lexemes are chosen so that every regular expression of the source   *)
(* matches on lexeme boundaries; each regular expression is translated to  *)
(* a scanner over lexemes that follows Python's leftmost, greedy,          *)
(* non-overlapping matching.  <<>> is the empty string.  A list of strings *)
(* is a sequence of such sequences.                                        *)
(***************************************************************************)
EXTENDS Integers, Sequences, FiniteSets, TLC

VARIABLES
    script,            \* "apt" or "crime": which of the two scripts runs
    pc,                \* position of the running call
    attempt,           \* main: the for loop's variable (0-based)
    events,            \* main: what the run did so far, in order
    page,              \* the document the site serves
    headers,           \* parse_table: the cleaned header texts
    groups_data,       \* parse_table: the records built so far
    new_data,          \* the value main returned
    out_file,          \* content of groups_*.json ("absent" before a write)
    text,              \* argument of the function under study
    result,            \* its return value
    char_text,         \* parse_characteristics: the working text
    parts,             \* parse_characteristics: re.split's list
    i,                 \* parse_characteristics: loop index (0-based)
    responsible_for,   \* parse_characteristics
    leak_site,         \* parse_characteristics
    additional_info,   \* parse_characteristics
    visited            \* history: the indices the while loop visited

mainVars == <<script, attempt, events, page, headers, groups_data, new_data, out_file>>
callVars == <<text, result>>
charVars == <<char_text, parts, i, responsible_for, leak_site, additional_info, visited>>
vars == <<pc, mainVars, callVars, charVars>>

(***************************************************************************)
(* Bounds of the model.                                                    *)
(***************************************************************************)
MaxNameLen == 4
MaxSectorLen == 4
MaxPropLen == 6
MaxCharLen == 5
MaxRows == 2

SeqsUpTo(S, n) == UNION {[1..k -> S] : k \in 0..n}

(***************************************************************************)
(* Character classes of the lexemes.                                       *)
(***************************************************************************)
\* \s : the whitespace lexemes
IsSpace(c) == c \in {" ", "\n"}

\* [A-Z] : the lexemes whose first character is an ASCII capital
UpperAsciiLex ==
    {"APT28", "Fancy", "Bear", "Unbekannt", "Diverse", "Verwaltung", "Luftfahrt",
     "Ordnung", "Vereinigungen", "Informationstechnologie", "Kunstwissenschaften",
     "Unterricht", "Rechtsberatung", "Munition", "Raumfahrzeugbau",
     "Schifffahrt", "Wirtschaftsaufsicht", "CVE-2021-1234", "Server", "Mail",
     "Nutzt", "Banken", "Leak-Seite", "Leak-Seiten", "Verantwortlich für",
     "N/A", "LockBit", "Gruppenname", "Beschreibung", "B"}

IsUpperAscii(c) == c \in UpperAsciiLex

\* [A-ZÄÖÜ] : additionally the capitals with umlaut
IsUpperDE(c) == c \in UpperAsciiLex \cup {"Tätigkeiten", "Öffentliche"}

\* str.lower() of one lexeme
LowerLex(c) ==
    CASE c = "Unbekannt" -> "unbekannt"
      [] c = "Diverse" -> "diverse"
      [] c = "Verwaltung" -> "verwaltung"
      [] c = "Luftfahrt" -> "luftfahrt"
      [] c = "Öffentliche" -> "öffentliche"
      [] c = "N/A" -> "n/a"
      [] OTHER -> c

\* str.upper() of one lexeme
UpperLex(c) ==
    CASE c = "n/a" -> "N/A"
      [] c = "N/a" -> "N/A"
      [] c = "aka" -> "AKA"
      [] c = "LockBit" -> "LOCKBIT"
      [] OTHER -> c

lower(s) == [k \in 1..Len(s) |-> LowerLex(s[k])]
upper(s) == [k \in 1..Len(s) |-> UpperLex(s[k])]

(***************************************************************************)
(* str.strip(), str.split(sep), and the list comprehensions built on them. *)
(***************************************************************************)
RECURSIVE LStrip(_)
LStrip(s) ==
    IF s # <<>> /\ IsSpace(Head(s)) THEN LStrip(Tail(s)) ELSE s

RECURSIVE RStrip(_)
RStrip(s) ==
    IF s # <<>> /\ IsSpace(s[Len(s)]) THEN RStrip(SubSeq(s, 1, Len(s) - 1)) ELSE s

strip(s) == RStrip(LStrip(s))

\* index of the first occurrence of lexeme sep in s, 0 when there is none
Find(s, sep) ==
    IF \E k \in 1..Len(s) : s[k] = sep
    THEN CHOOSE k \in 1..Len(s) : s[k] = sep /\ \A j \in 1..(k - 1) : s[j] # sep
    ELSE 0

RECURSIVE split(_, _)
split(s, sep) ==
    IF Find(s, sep) = 0 THEN <<s>>
    ELSE <<SubSeq(s, 1, Find(s, sep) - 1)>>
             \o split(SubSeq(s, Find(s, sep) + 1, Len(s)), sep)

\* c in s, for one lexeme c
HasLexeme(s, c) == \E k \in 1..Len(s) : s[k] = c

\* [p.strip() for p in ps]
StripAll(ps) == [k \in 1..Len(ps) |-> strip(ps[k])]

\* [p.strip() for p in ps if p.strip()]
StripNonEmpty(ps) == SelectSeq(StripAll(ps), LAMBDA p : p # <<>>)

(***************************************************************************)
(* clean_text (both scripts)                                               *)
(***************************************************************************)
\* re.sub(r'\s+', ' ', text)
RECURSIVE SubWhitespace(_)
SubWhitespace(s) ==
    IF s = <<>> THEN <<>>
    ELSE IF IsSpace(Head(s)) THEN <<" ">> \o SubWhitespace(LStrip(s))
    ELSE <<Head(s)>> \o SubWhitespace(Tail(s))

clean_text(t) ==
    IF t = <<>> THEN <<>> ELSE strip(SubWhitespace(t))

(***************************************************************************)
(* scrape_apt.py: parse_aliases                                            *)
(***************************************************************************)
parse_aliases_apt(name_text) ==
    LET ps == StripAll(split(clean_text(name_text), "/"))
    IN  IF ps = <<>>
        THEN [name |-> <<"Unknown">>, aliases |-> <<>>]
        ELSE [name |-> ps[1],
              aliases |-> IF Len(ps) > 1 THEN Tail(ps) ELSE <<>>]

(***************************************************************************)
(* scrape_apt.py: split_sectors                                            *)
(***************************************************************************)
patterns ==
    <<"Ordnung", "Verwaltung", "Vereinigungen", "Informationstechnologie",
      "Luftfahrt", "Kunstwissenschaften", "Unterricht", "Rechtsberatung",
      "Tätigkeiten", "Munition", "Raumfahrzeugbau", "Schifffahrt",
      "Wirtschaftsaufsicht">>

\* re.sub(r'(term)(?=[A-ZÄÖÜ])', r'\1|', s)
RECURSIVE SubTerm(_, _)
SubTerm(s, term) ==
    IF s = <<>> THEN <<>>
    ELSE IF Head(s) = term /\ Len(s) > 1 /\ IsUpperDE(s[2])
    THEN <<term, "|">> \o SubTerm(Tail(s), term)
    ELSE <<Head(s)>> \o SubTerm(Tail(s), term)

\* for pattern in patterns: sector_text = re.sub(...)
RECURSIVE ApplyPatterns(_, _)
ApplyPatterns(s, k) ==
    IF k > Len(patterns) THEN s
    ELSE ApplyPatterns(SubTerm(s, patterns[k]), k + 1)

\* split_sectors with "return sectors" for its last line
split_sectors_no_fallback(sector_text) ==
    IF sector_text = <<>>
           \/ lower(sector_text) \in {<<"unbekannt">>, <<"diverse">>, <<>>}
    THEN IF sector_text # <<>> THEN <<sector_text>> ELSE <<<<"unbekannt">>>>
    ELSE StripNonEmpty(split(ApplyPatterns(sector_text, 1), "|"))

\* split_sectors as written
split_sectors(sector_text) ==
    IF sector_text = <<>>
           \/ lower(sector_text) \in {<<"unbekannt">>, <<"diverse">>, <<>>}
    THEN IF sector_text # <<>> THEN <<sector_text>> ELSE <<<<"unbekannt">>>>
    ELSE LET sectors == StripNonEmpty(split(ApplyPatterns(sector_text, 1), "|"))
         IN  IF sectors # <<>> THEN sectors ELSE <<sector_text>>

(***************************************************************************)
(* scrape_apt.py: split_properties                                         *)
(***************************************************************************)
\* index of the first lexeme at or after k that is no whitespace (Len(s)+1 if none)
RECURSIVE SkipSpaceFrom(_, _)
SkipSpaceFrom(s, k) ==
    IF k <= Len(s) /\ IsSpace(s[k]) THEN SkipSpaceFrom(s, k + 1) ELSE k

\* CVE-\d{4}-\d{4,6}\s*\([^)]+\) matched at k: the index of its closing ")",
\* 0 when the pattern does not match at k
CveMatchEnd(s, k) ==
    IF k > Len(s) \/ s[k] # "CVE-2021-1234" THEN 0
    ELSE LET open == SkipSpaceFrom(s, k + 1)
         IN  IF open > Len(s) \/ s[open] # "(" THEN 0
             ELSE LET close == Find(SubSeq(s, open + 1, Len(s)), ")")
                  IN  IF close <= 1 THEN 0 ELSE open + close

\* re.sub(r'(CVE-\d{4}-\d{4,6}\s*\([^)]+\))(?=[A-Z])', r'\1|||', s), from index k
RECURSIVE SubCve(_, _)
SubCve(s, k) ==
    IF k > Len(s) THEN <<>>
    ELSE LET e == CveMatchEnd(s, k)
         IN  IF e # 0 /\ e < Len(s) /\ IsUpperAscii(s[e + 1])
             THEN SubSeq(s, k, e) \o <<"|||">> \o SubCve(s, e + 1)
             ELSE <<s[k]>> \o SubCve(s, k + 1)

\* re.sub(r'(Server\s+)(?=[A-Z])', r'\1|||', s), from index k
RECURSIVE SubServer(_, _)
SubServer(s, k) ==
    IF k > Len(s) THEN <<>>
    ELSE LET e == SkipSpaceFrom(s, k + 1)
         IN  IF s[k] = "Server" /\ e > k + 1 /\ e <= Len(s) /\ IsUpperAscii(s[e])
             THEN SubSeq(s, k, e - 1) \o <<"|||">> \o SubServer(s, e)
             ELSE <<s[k]>> \o SubServer(s, k + 1)

\* the working text after both substitutions
MarkProperties(prop_text) == SubServer(SubCve(prop_text, 1), 1)

split_properties(prop_text) ==
    IF prop_text = <<>> THEN <<>>
    ELSE LET properties == StripNonEmpty(split(MarkProperties(prop_text), "|||"))
         IN  SelectSeq(properties,
                 LAMBDA p : p # <<>> /\ p \notin {<<".">>, <<"B", ".">>, <<"z", ".">>})

(***************************************************************************)
(* scrape_crime.py: parse_aliases                                          *)
(***************************************************************************)
\* "(aka" in name_text (which " (aka " in name_text implies)
HasAka(s) == \E k \in 1..(Len(s) - 1) : s[k] = "(" /\ s[k + 1] = "aka"

\* re.match(r'([^(]+)\s*\(aka\s+([^)]+)\)', s) on a cleaned text: the indices
\* of "(" and of the closing ")", or <<0, 0>> when there is no match.  The
\* first group runs up to the first "(", which "aka", whitespace, at least
\* one lexeme other than ")" and a ")" must follow.
AkaMatch(s) ==
    LET open == Find(s, "(")
    IN  IF open <= 1 \/ open + 2 > Len(s) \/ s[open + 1] # "aka"
               \/ ~IsSpace(s[open + 2])
        THEN <<0, 0>>
        ELSE LET from == SkipSpaceFrom(s, open + 2)
                 close == Find(SubSeq(s, from, Len(s)), ")")
             IN  IF close <= 1 THEN <<0, 0>> ELSE <<open, from + close - 1>>

parse_aliases_crime(raw_text) ==
    LET name_text == clean_text(raw_text)
        m == AkaMatch(name_text)
        ps == StripAll(split(name_text, ","))
    IN  IF upper(name_text) = <<"N/A">>
        THEN [name |-> <<"N/A">>, aliases |-> <<>>]
        ELSE IF HasAka(name_text) /\ m # <<0, 0>>
        THEN [name |-> strip(SubSeq(name_text, 1, m[1] - 1)),
              aliases |-> StripAll(split(
                  strip(SubSeq(name_text, m[1] + 2, m[2] - 1)), ","))]
        ELSE [name |-> IF ps # <<>> THEN ps[1] ELSE <<"Unknown">>,
              aliases |-> IF Len(ps) > 1 THEN Tail(ps) ELSE <<>>]

(***************************************************************************)
(* scrape_crime.py: split_description and the sentence split it shares     *)
(* with parse_characteristics                                              *)
(***************************************************************************)
\* index of the first whitespace run that follows "." or "!" and is followed
\* by a capital, 0 when there is none
SentenceBreak(s) ==
    LET Breaks == {k \in 2..Len(s) :
                      /\ IsSpace(s[k])
                      /\ s[k - 1] \in {".", "!"}
                      /\ SkipSpaceFrom(s, k) <= Len(s)
                      /\ IsUpperDE(s[SkipSpaceFrom(s, k)])}
    IN  IF Breaks = {} THEN 0
        ELSE CHOOSE k \in Breaks : \A j \in Breaks : k <= j

\* re.split(r'(?<=[.!])\s+(?=[A-ZÄÖÜ])', s)
RECURSIVE SplitSentences(_)
SplitSentences(s) ==
    IF SentenceBreak(s) = 0 THEN <<s>>
    ELSE <<SubSeq(s, 1, SentenceBreak(s) - 1)>>
             \o SplitSentences(SubSeq(s, SkipSpaceFrom(s, SentenceBreak(s)), Len(s)))

split_description(desc_text) ==
    IF desc_text = <<>> THEN <<>>
    ELSE StripNonEmpty(SplitSentences(desc_text))

(***************************************************************************)
(* scrape_crime.py: parse_characteristics                                  *)
(***************************************************************************)
\* "Leak-Seite bekannt" in char_text or "Leak-Seiten" in char_text
LeakCheck(s) ==
    \/ \E k \in 1..(Len(s) - 2) :
           s[k] = "Leak-Seite" /\ s[k + 1] = " " /\ s[k + 2] = "bekannt"
    \/ HasLexeme(s, "Leak-Seiten")

\* Leak-Seite[n]?\s+bekannt\.?\s* matched at k: the index after the match,
\* 0 when the pattern does not match at k
LeakMatchEnd(s, k) ==
    LET b == SkipSpaceFrom(s, k + 1)
    IN  IF s[k] \in {"Leak-Seite", "Leak-Seiten"} /\ b > k + 1
               /\ b <= Len(s) /\ s[b] = "bekannt"
        THEN IF b < Len(s) /\ s[b + 1] = "."
             THEN SkipSpaceFrom(s, b + 2)
             ELSE SkipSpaceFrom(s, b + 1)
        ELSE 0

\* re.sub(r'Leak-Seite[n]?\s+bekannt\.?\s*', ' ', s), from index k
RECURSIVE SubLeak(_, _)
SubLeak(s, k) ==
    IF k > Len(s) THEN <<>>
    ELSE IF LeakMatchEnd(s, k) # 0
    THEN <<" ">> \o SubLeak(s, LeakMatchEnd(s, k))
    ELSE <<s[k]>> \o SubLeak(s, k + 1)

\* index of the first "Verantwortlich für " (the words and one space), or 0
MarkerAt(s) ==
    LET Hits == {k \in 1..(Len(s) - 1) :
                    s[k] = "Verantwortlich für" /\ s[k + 1] = " "}
    IN  IF Hits = {} THEN 0 ELSE CHOOSE k \in Hits : \A j \in Hits : k <= j

\* re.split(f'({verantwortlich_pattern})', char_text): the pieces between the
\* markers with the markers themselves, alternating
RECURSIVE SplitMarker(_)
SplitMarker(s) ==
    IF MarkerAt(s) = 0 THEN <<s>>
    ELSE <<SubSeq(s, 1, MarkerAt(s) - 1), <<"Verantwortlich für", " ">>>>
             \o SplitMarker(SubSeq(s, MarkerAt(s) + 2, Len(s)))

\* the sentences of one part that the else branch appends
KeptSentences(part) ==
    SelectSeq(StripAll(SplitSentences(part)),
              LAMBDA sent : sent # <<>> /\ sent[1] # "Verantwortlich für")

\* one pass through the body of "while i < len(parts)", i = k (0-based):
\* the new i, responsible_for and additional_info
WhileBody(ps, k, rf, ai) ==
    IF strip(ps[k + 1]) = <<"Verantwortlich für">>
    THEN IF k + 1 < Len(ps)
         THEN [i |-> k + 2,
               responsible_for |-> Append(rf, strip(split(ps[k + 2], ".")[1])),
               additional_info |-> ai]
         ELSE [i |-> k + 1, responsible_for |-> rf, additional_info |-> ai]
    ELSE [i |-> k + 1,
          responsible_for |-> rf,
          additional_info |-> ai \o KeptSentences(ps[k + 1])]

\* the statements before the loop: the leak-site check and the split
WorkingText(s) == IF LeakCheck(s) THEN SubLeak(s, 1) ELSE s

\* the statements after the loop: the fallback and the returned dict
CharResult(working, rf, leak, ai) ==
    [responsible_for |-> rf,
     leak_site |-> leak,
     additional_info |-> IF rf = <<>> /\ ai = <<>>
                         THEN StripNonEmpty(SplitSentences(working))
                         ELSE ai]

RECURSIVE WhileLoop(_, _, _, _)
WhileLoop(ps, k, rf, ai) ==
    IF k < Len(ps)
    THEN WhileLoop(ps, WhileBody(ps, k, rf, ai).i,
                   WhileBody(ps, k, rf, ai).responsible_for,
                   WhileBody(ps, k, rf, ai).additional_info)
    ELSE [responsible_for |-> rf, additional_info |-> ai]

\* the whole call, as parse_table uses it
parse_characteristics(s) ==
    IF s = <<>>
    THEN [responsible_for |-> <<>>, leak_site |-> FALSE, additional_info |-> <<>>]
    ELSE LET w == WorkingText(s)
             r == WhileLoop(SplitMarker(w), 0, <<>>, <<>>)
         IN  CharResult(w, r.responsible_for, LeakCheck(s), r.additional_info)

(***************************************************************************)
(* parse_table: the record of one row (both scripts)                       *)
(***************************************************************************)
\* raw_data.get(key, default), raw_data = {headers[i]: cell for i, cell in
\* enumerate(group_cells)}: the cell under the last header equal to key
Get(hs, cells, key, default) ==
    LET Hits == {k \in 1..Len(cells) : hs[k] = key}
    IN  IF Hits = {} THEN default
        ELSE cells[CHOOSE k \in Hits : \A j \in Hits : j <= k]

\* group_cells of a row: clean_text of every td
GroupCells(row) == [k \in 1..Len(row) |-> clean_text(row[k])]

\* scrape_apt.py: structured_group of one row
structured_group_apt(hs, row) ==
    LET cells == GroupCells(row)
        group_info == parse_aliases_apt(
            Get(hs, cells, <<"Gruppenname und Aliase">>, <<>>))
        sectors == split_sectors(
            Get(hs, cells, <<"Wirtschaftszweig in Deutschland nach WZ 2008">>, <<>>))
        properties == split_properties(
            Get(hs, cells, <<"Besondere Eigenschaften">>, <<>>))
    IN  [group_name |-> group_info.name,
         aliases |-> group_info.aliases,
         targeted_sectors |-> sectors,
         characteristics |-> IF properties # <<>> THEN properties
                             ELSE <<<<"No specific characteristics listed">>>>]

\* scrape_crime.py: structured_group of one row
structured_group_crime(hs, row) ==
    LET cells == GroupCells(row)
        group_info == parse_aliases_crime(
            Get(hs, cells, <<"Gruppenname">>,
                Get(hs, cells, <<"Gruppenname", " ">>, <<>>)))
        description == split_description(Get(hs, cells, <<"Beschreibung">>, <<>>))
        characteristics == parse_characteristics(
            Get(hs, cells, <<"Besondere Eigenschaften">>, <<>>))
    IN  [group_name |-> group_info.name,
         aliases |-> group_info.aliases,
         description |-> description,
         responsible_for |-> characteristics.responsible_for,
         has_leak_site |-> characteristics.leak_site,
         additional_characteristics |-> characteristics.additional_info]

structured_group(sc, hs, row) ==
    IF sc = "apt" THEN structured_group_apt(hs, row)
    ELSE structured_group_crime(hs, row)

\* the dict comprehension reads headers[i] for every cell: IndexError when
\* the row has more cells than the table has headers
RaisesIndexError(hs, row) == Len(row) > Len(hs)

\* groups_data.insert(0, structured_group)
prepend_group(gd, group) == <<group>> \o gd

\* groups_data.append(structured_group)
append_group(gd, group) == Append(gd, group)

(***************************************************************************)
(* The documents the site may serve.                                       *)
(***************************************************************************)
Ths(sc) ==
    IF sc = "apt"
    THEN << <<"\n", "Gruppenname und Aliase", " ">>,
            <<"Wirtschaftszweig in Deutschland nach WZ 2008">>,
            <<"Besondere Eigenschaften">> >>
    ELSE << <<"Gruppenname", " ">>,
            <<"Beschreibung">>,
            <<" ", "Besondere Eigenschaften">> >>

Trs(sc) ==
    IF sc = "apt"
    THEN { <<>>,
           << <<"APT28", " ", "/", "\n", "Bear">> >>,
           << <<"APT28", "/", "Fancy", " ", "Bear">>,
              <<"Verwaltung", "Luftfahrt">>,
              <<"Nutzt", " ", "CVE-2021-1234", " ", "(", "Mail", ")", "Server",
                " ", "Mail">> >>,
           << <<>>, <<"Diverse">>, <<>> >>,
           << <<"Bear">>, <<"unbekannt">>, <<"Server">>, <<"Mail">> >> }
    ELSE { <<>>,
           << <<"LockBit", " ", "(", "aka", " ", "Bear", ",", "Mail", ")">> >>,
           << <<"LockBit", ",", " ", "Bear">>,
              <<"Nutzt", " ", "Mail", ".", "\n", "Banken", "!">>,
              <<"Leak-Seite", " ", "bekannt", ".", " ", "Verantwortlich für",
                " ", "Banken", ".">> >>,
           << <<"n/a">>, <<>>, <<"Leak-Seiten">> >>,
           << <<"Bear">>, <<"Banken", ".">>, <<"Banken">>, <<"Mail">> >> }

NoTable == [table |-> FALSE, thead |-> FALSE, tbody |-> FALSE, trs |-> <<>>]

Pages(sc) ==
    {NoTable}
        \cup {[table |-> TRUE, thead |-> FALSE, tbody |-> b, trs |-> <<>>] :
                  b \in BOOLEAN}
        \cup {[table |-> TRUE, thead |-> TRUE, tbody |-> FALSE, trs |-> <<>>]}
        \cup {[table |-> TRUE, thead |-> TRUE, tbody |-> TRUE, trs |-> rows] :
                  rows \in SeqsUpTo(Trs(sc), MaxRows)}

(***************************************************************************)
(* main and the "__main__" block (both scripts)                            *)
(***************************************************************************)
max_attempts == 3

RECURSIVE Pow2(_)
Pow2(n) == IF n = 0 THEN 1 ELSE 2 * Pow2(n - 1)

\* wait_time = (2 ** attempt) * 2
wait_time(a) == Pow2(a) * 2

\* the inner except without its "else: raise"
retry_always(a) == TRUE

\* "if attempt < max_attempts - 1": wait and go round again, else re-raise
retry(a) == a < max_attempts - 1

\* the __main__ block without its "if new_data:"
write_always(data) == TRUE

\* "if new_data:" of the __main__ block
truthy(data) == data # <<>>

Ev(op, arg) == [op |-> op, arg |-> arg]

Init ==
    /\ script \in {"apt", "crime"}
    /\ page \in Pages(script)
    /\ out_file \in {[state |-> "absent", data |-> <<>>],
                     [state |-> "old", data |-> <<>>]}
    /\ pc = "main"
    /\ attempt = 0
    /\ events = <<>>
    /\ headers = <<>> /\ groups_data = <<>> /\ new_data = <<>>
    /\ text = <<>> /\ result = <<>>
    /\ char_text = <<>> /\ parts = <<>> /\ i = 0 /\ responsible_for = <<>>
    /\ leak_site = FALSE /\ additional_info = <<>> /\ visited = <<>>

\* main up to the for loop: the print, time.sleep(1), create_session()
MainStart ==
    /\ pc = "main"
    /\ events' = events \o <<Ev("sleep", 1)>>
    /\ attempt' = 0
    /\ pc' = "attempt"
    /\ UNCHANGED <<script, page, headers, groups_data, new_data, out_file,
                   callVars, charVars>>

\* session.get and raise_for_status succeed
FetchOk ==
    /\ pc = "attempt"
    /\ attempt < max_attempts
    /\ events' = events \o <<Ev("get", attempt + 1), Ev("ok", 200)>>
    /\ pc' = "get_table_data"
    /\ UNCHANGED <<script, attempt, page, headers, groups_data, new_data,
                   out_file, callVars, charVars>>

\* ConnectionError or Timeout, caught by the inner except
FetchConnectionError ==
    /\ pc = "attempt"
    /\ attempt < max_attempts
    /\ \E e \in {"ConnectionError", "Timeout"} :
           IF retry(attempt)
           THEN /\ events' = events \o <<Ev("get", attempt + 1), Ev("raise", e),
                                         Ev("sleep", wait_time(attempt))>>
                /\ attempt' = attempt + 1
                /\ UNCHANGED <<pc, new_data>>
           ELSE \* re-raised: "except requests.exceptions.RequestException"
                /\ events' = events \o <<Ev("get", attempt + 1), Ev("raise", e),
                                         Ev("print", "Error fetching data")>>
                /\ new_data' = <<>>
                /\ pc' = "main_returned"
                /\ UNCHANGED attempt
    /\ UNCHANGED <<script, page, headers, groups_data, out_file, callVars, charVars>>

\* raise_for_status raises: "except requests.exceptions.HTTPError"
FetchHTTPError ==
    /\ pc = "attempt"
    /\ attempt < max_attempts
    /\ events' = events \o <<Ev("get", attempt + 1), Ev("raise", "HTTPError"),
                             Ev("print", "HTTP error")>>
    /\ new_data' = <<>>
    /\ pc' = "main_returned"
    /\ UNCHANGED <<script, attempt, page, headers, groups_data, out_file,
                   callVars, charVars>>

\* any other RequestException of session.get (too many redirects, retries
\* of the adapter exhausted, ...): "except requests.exceptions.RequestException"
FetchRequestException ==
    /\ pc = "attempt"
    /\ attempt < max_attempts
    /\ events' = events \o <<Ev("get", attempt + 1), Ev("raise", "RequestException"),
                             Ev("print", "Error fetching data")>>
    /\ new_data' = <<>>
    /\ pc' = "main_returned"
    /\ UNCHANGED <<script, attempt, page, headers, groups_data, out_file,
                   callVars, charVars>>

\* get_table_data: no table of class alternativ2, ValueError, caught by
\* "except (IndexError, ValueError)"
NoTableFound ==
    /\ pc = "get_table_data"
    /\ ~page.table
    /\ events' = events \o <<Ev("raise", "ValueError"),
                             Ev("print", "Error parsing table")>>
    /\ new_data' = <<>>
    /\ pc' = "main_returned"
    /\ UNCHANGED <<script, attempt, page, headers, groups_data, out_file,
                   callVars, charVars>>

\* get_table_data calls parse_table, which reads the headers
ParseHeaders ==
    /\ pc = "get_table_data"
    /\ page.table /\ page.thead
    /\ headers' = GroupCells(Ths(script))
    /\ groups_data' = <<>>
    /\ pc' = "rows"
    /\ UNCHANGED <<script, attempt, events, page, new_data, out_file,
                   callVars, charVars>>

\* table.find('thead') or table.find('tbody') is None: AttributeError, which
\* no except clause of main catches; the interpreter prints the traceback
ParseNoSection ==
    /\ \/ pc = "get_table_data" /\ page.table /\ ~page.thead
       \/ pc = "rows" /\ ~page.tbody
    /\ events' = events \o <<Ev("raise", "AttributeError"),
                             Ev("print", "Traceback")>>
    /\ pc' = "crashed"
    /\ UNCHANGED <<script, attempt, page, headers, groups_data, new_data,
                   out_file, callVars, charVars>>

\* one pass of "for row in table.find('tbody').find_all('tr')"
ParseRow ==
    /\ pc = "rows"
    /\ page.tbody
    /\ Len(groups_data) < Len(page.trs)
    /\ LET row == page.trs[Len(groups_data) + 1]
       IN  IF RaisesIndexError(headers, row)
           THEN \* caught by "except (IndexError, ValueError)"
                /\ events' = events \o <<Ev("raise", "IndexError"),
                                         Ev("print", "Error parsing table")>>
                /\ new_data' = <<>>
                /\ pc' = "main_returned"
                /\ UNCHANGED groups_data
           ELSE /\ groups_data' =
                       append_group(groups_data, structured_group(script, headers, row))
                /\ UNCHANGED <<events, new_data, pc>>
    /\ UNCHANGED <<script, attempt, page, headers, out_file, callVars, charVars>>

\* "return groups_data", returned on by get_table_data and by main
ParseReturn ==
    /\ pc = "rows"
    /\ page.tbody
    /\ Len(groups_data) = Len(page.trs)
    /\ new_data' = groups_data
    /\ events' = events \o <<Ev("return", Len(groups_data))>>
    /\ pc' = "main_returned"
    /\ UNCHANGED <<script, attempt, page, headers, groups_data, out_file,
                   callVars, charVars>>

\* the __main__ block: write_to_file(new_data), or the "No data" message
MainBlock ==
    /\ pc = "main_returned"
    /\ IF truthy(new_data)
       THEN /\ out_file' = [state |-> "written", data |-> new_data]
            /\ events' = events \o <<Ev("write", Len(new_data))>>
       ELSE /\ events' = events \o <<Ev("print", "No data retrieved")>>
            /\ UNCHANGED out_file
    /\ pc' = "exit"
    /\ UNCHANGED <<script, attempt, page, headers, groups_data, new_data,
                   callVars, charVars>>

Next ==
    \/ MainStart
    \/ FetchOk
    \/ FetchConnectionError
    \/ FetchHTTPError
    \/ FetchRequestException
    \/ NoTableFound
    \/ ParseHeaders
    \/ ParseNoSection
    \/ ParseRow
    \/ ParseReturn
    \/ MainBlock

Spec == Init /\ [][Next]_vars

(***************************************************************************)
(* Specifications of single calls: the argument is drawn in Init, the      *)
(* action applies the function.                                            *)
(***************************************************************************)
Idle ==
    /\ script = "apt" /\ attempt = 0 /\ events = <<>> /\ page = "none"
    /\ headers = <<>> /\ groups_data = <<>> /\ new_data = <<>>
    /\ out_file = [state |-> "absent", data |-> <<>>]
    /\ char_text = <<>> /\ parts = <<>> /\ i = 0 /\ responsible_for = <<>> /\ leak_site = FALSE
    /\ additional_info = <<>> /\ visited = <<>>

NameLex == {"APT28", "Bear", " ", "\n", "/"}
SectorLex == {"Verwaltung", "Luftfahrt", "und", " ", "|", "unbekannt", "Diverse"}
PropLex == {"CVE-2021-1234", " ", "(", ")", "Server", "Mail"}

InitAliases ==
    /\ Idle
    /\ pc = "parse_aliases"
    /\ text \in SeqsUpTo(NameLex, MaxNameLen)
    /\ result = <<>>

CallParseAliases ==
    /\ pc = "parse_aliases"
    /\ result' = parse_aliases_apt(text)
    /\ pc' = "returned"
    /\ UNCHANGED <<text, mainVars, charVars>>

SpecAliases == InitAliases /\ [][CallParseAliases]_vars

InitSectors ==
    /\ Idle
    /\ pc = "split_sectors"
    /\ text \in SeqsUpTo(SectorLex, MaxSectorLen)
    /\ result = <<>>

CallSplitSectors ==
    /\ pc = "split_sectors"
    /\ result' = split_sectors(text)
    /\ pc' = "returned"
    /\ UNCHANGED <<text, mainVars, charVars>>

SpecSectors == InitSectors /\ [][CallSplitSectors]_vars

InitProperties ==
    /\ Idle
    /\ pc = "split_properties"
    /\ text \in SeqsUpTo(PropLex, MaxPropLen)
    /\ result = <<>>

CallSplitProperties ==
    /\ pc = "split_properties"
    /\ result' = split_properties(text)
    /\ pc' = "returned"
    /\ UNCHANGED <<text, mainVars, charVars>>

SpecProperties == InitProperties /\ [][CallSplitProperties]_vars

(***************************************************************************)
(* parse_characteristics step by step: the statements before the loop, one *)
(* action per pass of the while loop, the statements after it.             *)
(***************************************************************************)
CharLex ==
    {"Verantwortlich für", " ", ".", "Banken", "Leak-Seite", "Leak-Seiten", "bekannt"}

InitChar ==
    /\ script = "crime" /\ attempt = 0 /\ events = <<>> /\ page = "none"
    /\ headers = <<>> /\ groups_data = <<>> /\ new_data = <<>>
    /\ out_file = [state |-> "absent", data |-> <<>>]
    /\ pc = "parse_characteristics"
    /\ text \in SeqsUpTo(CharLex, MaxCharLen)
    /\ result = <<>>
    /\ char_text = text /\ parts = <<>> /\ i = 0 /\ responsible_for = <<>>
    /\ leak_site = FALSE /\ additional_info = <<>> /\ visited = <<>>

\* "if not char_text: return {...}"
CharEmpty ==
    /\ pc = "parse_characteristics"
    /\ char_text = <<>>
    /\ result' = [responsible_for |-> <<>>, leak_site |-> FALSE,
                  additional_info |-> <<>>]
    /\ pc' = "returned"
    /\ UNCHANGED <<text, mainVars, charVars>>

\* the leak-site check and re.split, up to "i = 0"
CharSplit ==
    /\ pc = "parse_characteristics"
    /\ char_text # <<>>
    /\ leak_site' = LeakCheck(char_text)
    /\ char_text' = WorkingText(char_text)
    /\ parts' = SplitMarker(char_text')
    /\ i' = 0
    /\ pc' = "while"
    /\ UNCHANGED <<text, result, responsible_for, additional_info, visited, mainVars>>

\* one pass of the while loop
CharWhile ==
    /\ pc = "while"
    /\ i < Len(parts)
    /\ LET next == WhileBody(parts, i, responsible_for, additional_info)
       IN  /\ i' = next.i
           /\ responsible_for' = next.responsible_for
           /\ additional_info' = next.additional_info
    /\ visited' = Append(visited, i)
    /\ UNCHANGED <<pc, text, result, char_text, parts, leak_site, mainVars>>

\* the loop's exit, the fallback and the return
CharReturn ==
    /\ pc = "while"
    /\ i >= Len(parts)
    /\ result' = CharResult(char_text, responsible_for, leak_site, additional_info)
    /\ pc' = "returned"
    /\ UNCHANGED <<text, mainVars, charVars>>

NextChar == CharEmpty \/ CharSplit \/ CharWhile \/ CharReturn

SpecChar == InitChar /\ [][NextChar]_vars

(***************************************************************************)
(* Claims about single calls.                                              *)
(***************************************************************************)
\* the string a occurs in the string b
IsInfix(a, b) ==
    \E k \in 0..(Len(b) - Len(a)) : SubSeq(b, k + 1, k + Len(a)) = a

\* C1: for every name text without "/", APT parse_aliases returns the
\* normalized text as name, or "Unknown" when the normalized text is empty,
\* and no aliases.
C1_NameOrUnknown ==
    (pc = "returned" /\ ~HasLexeme(text, "/")) =>
        result = [name |-> IF clean_text(text) # <<>>
                           THEN clean_text(text) ELSE <<"Unknown">>,
                  aliases |-> <<>>]

\* C6 as stated: split_sectors never returns an empty list, and an empty
\* field or a no-data token ("unbekannt", "diverse", any case) gives exactly
\* ["unbekannt"].
C6_SentinelForNoData ==
    pc = "returned" =>
        /\ Len(result) >= 1
        /\ (text = <<>> \/ lower(text) \in {<<"unbekannt">>, <<"diverse">>})
               => result = <<<<"unbekannt">>>>

\* C6 amended: split_sectors never returns an empty list; an empty field
\* gives ["unbekannt"]; a field that is a no-data token in any case is
\* returned as written, as the only element.
C6_NonEmptyAndNoDataKept ==
    pc = "returned" =>
        /\ Len(result) >= 1
        /\ text = <<>> => result = <<<<"unbekannt">>>>
        /\ (text # <<>> /\ lower(text) \in {<<"unbekannt">>, <<"diverse">>})
               => result = <<text>>

C6_Witness ==
    pc = "returned" /\ text = <<"Diverse">> /\ result = <<<<"Diverse">>>>

\* C7: every piece of the input that matches "CVE-YYYY-NNNN (vendor text)"
\* is found whole inside one item of split_properties' result, and no
\* boundary marker stands inside it in the marked working text.
C7_CveKeptWhole ==
    pc = "returned" =>
        \A k \in 1..Len(text) :
            CveMatchEnd(text, k) # 0 =>
                /\ \E j \in 1..Len(result) :
                       IsInfix(SubSeq(text, k, CveMatchEnd(text, k)), result[j])
                /\ IsInfix(SubSeq(text, k, CveMatchEnd(text, k)),
                           MarkProperties(text))

\* number of occurrences of lexeme c in the string s
Count(s, c) == Cardinality({k \in 1..Len(s) : s[k] = c})

\* number of occurrences of lexeme c in the strings of a list
RECURSIVE CountIn(_, _)
CountIn(list, c) ==
    IF list = <<>> THEN 0 ELSE Count(Head(list), c) + CountIn(Tail(list), c)

\* a leak-site marker phrase: "Leak-Seite bekannt", or "Leak-Seiten" with
\* "bekannt" anywhere after it
HasLeakPhrase(s) ==
    \/ \E k \in 1..(Len(s) - 2) :
           s[k] = "Leak-Seite" /\ s[k + 1] = " " /\ s[k + 2] = "bekannt"
    \/ \E k \in 1..Len(s) : \E j \in (k + 1)..Len(s) :
           s[k] = "Leak-Seiten" /\ s[j] = "bekannt"

\* C4: parse_characteristics sets leak_site exactly when the text holds a
\* leak-site marker phrase; "Leak-Seiten" without "bekannt" does not set it.
C4_LeakSiteIffPhrase ==
    pc = "returned" => (result.leak_site <=> HasLeakPhrase(text))

\* C5: parse_characteristics loses no text: every word of the input that is
\* not part of a leak-site phrase is found in responsible_for or in
\* additional_info, and with leak_site set no additional_info item holds the
\* leak-site phrase.
C5_NoTextLost ==
    pc = "returned" =>
        /\ Count(text, "Banken")
               = CountIn(result.responsible_for, "Banken")
                   + CountIn(result.additional_info, "Banken")
        /\ result.leak_site =>
               \A k \in 1..Len(result.additional_info) :
                   ~HasLeakPhrase(result.additional_info[k])

\* C9: the marker loop visits each segment at most once, responsible_for
\* gets one entry per occurrence of "Verantwortlich für " in order, each the
\* segment after that occurrence cut at its first "." and trimmed, and that
\* segment is never sentence-segmented as well.
C9_OneEntryPerMarker ==
    (pc = "returned" /\ text # <<>>) =>
        /\ \A a, b \in 1..Len(visited) : a < b => visited[a] < visited[b]
        /\ responsible_for
               = [m \in 1..((Len(parts) - 1) \div 2)
                      |-> strip(split(parts[2 * m + 1], ".")[1])]
        /\ \A m \in 1..((Len(parts) - 1) \div 2) :
               \A a \in 1..Len(visited) : visited[a] # 2 * m

(***************************************************************************)
(* Claims about a whole run.                                               *)
(***************************************************************************)
HasEvent(op) == \E k \in 1..Len(events) : events[k].op = op

HasRaise(e) ==
    \E k \in 1..Len(events) : events[k].op = "raise" /\ events[k].arg = e

\* the batch failed: an exception left the try body of main (a raise that no
\* retry wait follows)
Failed ==
    \E k \in 1..Len(events) :
        /\ events[k].op = "raise"
        /\ k = Len(events) \/ events[k + 1].op # "sleep"

\* the failure was shown to the operator
Reported ==
    \E k \in 1..Len(events) :
        /\ events[k].op = "print"
        /\ events[k].arg \in {"HTTP error", "Error fetching data",
                              "Error parsing table", "Traceback"}

\* the records of all rows of the served table, in row order
AllRecords ==
    [k \in 1..Len(page.trs) |->
        structured_group(script, GroupCells(Ths(script)), page.trs[k])]

\* C2: a failed batch is reported and writes nothing: the output file stays
\* as it was; a file is written only with the complete record list of the
\* whole table, returned by main.
C2_NoFileOnFailure ==
    /\ (Failed /\ pc \in {"main_returned", "crashed", "exit"}) =>
           /\ Reported
           /\ ~HasEvent("write")
           /\ out_file.state \in {"absent", "old"}
    /\ (HasEvent("write") \/ out_file.state = "written") =>
           /\ ~Failed
           /\ HasEvent("return")
           /\ new_data = AllRecords
           /\ out_file = [state |-> "written", data |-> AllRecords]

C2_Witness ==
    /\ pc = "exit"
    /\ HasRaise("IndexError")
    /\ Len(groups_data) = 1
    /\ out_file.state = "old"

\* C3: every row of a fetched table yields a record, whatever its number of
\* cells: parse_table raises nothing and skips no row, and a row without
\* cells gets the documented defaults.
C3_EveryRowYieldsRecord ==
    (pc \in {"main_returned", "exit"} /\ HasEvent("ok")
         /\ page.table /\ page.thead /\ page.tbody) =>
        /\ ~HasEvent("raise")
        /\ Len(new_data) = Len(page.trs)
        /\ \A k \in 1..Len(new_data) :
               page.trs[k] = <<>> =>
                   IF script = "apt"
                   THEN new_data[k] =
                            [group_name |-> <<"Unknown">>,
                             aliases |-> <<>>,
                             targeted_sectors |-> <<<<"unbekannt">>>>,
                             characteristics |->
                                 <<<<"No specific characteristics listed">>>>]
                   ELSE /\ new_data[k].aliases = <<>>
                        /\ new_data[k].description = <<>>
                        /\ new_data[k].responsible_for = <<>>
                        /\ new_data[k].has_leak_site = FALSE
                        /\ new_data[k].additional_characteristics = <<>>

NoFetchAfter(k) ==
    \A j \in (k + 1)..Len(events) : events[j].op \notin {"get", "sleep"}

====
